---- MODULE Spec2Model ----
(***************************************************************************)
(* A model of data_parser.py of osu-map-type-classifier: the section       *)
(* scanner, the difficulty reader, the timing point table and its two      *)
(* queries, the hit object reader, the feature aggregator, the record      *)
(* serializer, and the loop of parse_data over the files.                  *)
(*                                                                         *)
(* Python floats are modelled as IEEE 754 doubles, every operation on      *)
(* them rounding as the machine does, so that a comparison at the end of   *)
(* a tolerance band comes out as in the code.  The text of a number in a   *)
(* document is held as the rational <<n, d>> (d > 0, lowest terms) it      *)
(* denotes.  The sum of the spacings, on which no decision of the code     *)
(* rests, is held exactly: a whole number and the radicands of the square  *)
(* roots that are not whole.                                               *)
(***************************************************************************)
EXTENDS Integers, Sequences, FiniteSets, TLC

\* ------------------------------------------------------ numbers in text

Abs(x) == IF x < 0 THEN -x ELSE x

RECURSIVE Gcd(_, _)
Gcd(a, b) == IF b = 0 THEN a ELSE Gcd(b, a % b)

\* n / d in lowest terms with a positive denominator (d # 0).
Rat(n, d) ==
    LET g == Gcd(Abs(n), Abs(d))
        s == IF d < 0 THEN -1 ELSE 1
    IN  <<(s * n) \div g, (s * d) \div g>>

FromInt(n) == <<n, 1>>

\* ------------------------------------------------------- Python floats
\* A Python float is an IEEE 754 double.  Its mantissa does not fit a TLC
\* integer, so a natural number of any size is held as the sequence of its
\* digits in base 2^14, lowest digit first, without leading zeros (0 is
\* <<>>), and a float as [neg, m, e]: its value is m * 2^e, negated when
\* neg, with m such a natural, odd or zero, of at most 53 bits.  Every
\* operation rounds its exact result to 53 bits, ties to even.  Infinities,
\* nans, subnormals and the sign of zero are not held: the code reaches
\* them only where it divides by zero.
Base == 2^14
Precision == 53

Limb(a, i) == IF i <= Len(a) THEN a[i] ELSE 0

RECURSIVE BTrim(_)
BTrim(a) ==
    IF a # <<>> /\ a[Len(a)] = 0 THEN BTrim(SubSeq(a, 1, Len(a) - 1)) ELSE a

RECURSIVE BFromNat(_)
BFromNat(n) == IF n = 0 THEN <<>> ELSE <<n % Base>> \o BFromNat(n \div Base)

RECURSIVE BAddFrom(_, _, _, _)
BAddFrom(a, b, i, carry) ==
    IF i > Len(a) /\ i > Len(b)
    THEN IF carry = 0 THEN <<>> ELSE <<carry>>
    ELSE LET s == Limb(a, i) + Limb(b, i) + carry
         IN  <<s % Base>> \o BAddFrom(a, b, i + 1, s \div Base)
BAdd(a, b) == BAddFrom(a, b, 1, 0)

\* a - b for a >= b.
RECURSIVE BSubFrom(_, _, _, _)
BSubFrom(a, b, i, borrow) ==
    IF i > Len(a) THEN <<>>
    ELSE LET d == a[i] - Limb(b, i) - borrow
         IN  <<d % Base>> \o BSubFrom(a, b, i + 1, IF d < 0 THEN 1 ELSE 0)
BSub(a, b) == BTrim(BSubFrom(a, b, 1, 0))

\* -1, 0 or 1 as a is below, equal to or above b.
RECURSIVE BCmpFrom(_, _, _)
BCmpFrom(a, b, i) ==
    IF i = 0 THEN 0
    ELSE IF a[i] < b[i] THEN -1
    ELSE IF a[i] > b[i] THEN 1
    ELSE BCmpFrom(a, b, i - 1)
BCmp(a, b) ==
    IF Len(a) < Len(b) THEN -1
    ELSE IF Len(a) > Len(b) THEN 1
    ELSE BCmpFrom(a, b, Len(a))

\* a * k for 0 <= k < 2^16.
RECURSIVE BMulSmallFrom(_, _, _, _)
BMulSmallFrom(a, k, i, carry) ==
    IF i > Len(a) THEN BFromNat(carry)
    ELSE LET s == a[i] * k + carry
         IN  <<s % Base>> \o BMulSmallFrom(a, k, i + 1, s \div Base)
BMulSmall(a, k) == BTrim(BMulSmallFrom(a, k, 1, 0))

RECURSIVE BMulFrom(_, _, _)
BMulFrom(a, b, j) ==
    IF j > Len(b) THEN <<>>
    ELSE BAdd(BMulSmall(a, b[j]), <<0>> \o BMulFrom(a, b, j + 1))
BMul(a, b) == BTrim(BMulFrom(a, b, 1))

\* Quotient and remainder of a by d, for 0 < d <= 2^16.
RECURSIVE BDivSmallFrom(_, _, _, _)
BDivSmallFrom(a, d, i, r) ==
    IF i = 0 THEN [q |-> <<>>, r |-> r]
    ELSE LET part == r * Base + a[i]
             rest == BDivSmallFrom(a, d, i - 1, part % d)
         IN  [q |-> Append(rest.q, part \div d), r |-> rest.r]
BDivSmall(a, d) ==
    LET res == BDivSmallFrom(a, d, Len(a), 0)
    IN  [q |-> BTrim(res.q), r |-> res.r]

RECURSIVE BitLenSmall(_)
BitLenSmall(n) == IF n = 0 THEN 0 ELSE 1 + BitLenSmall(n \div 2)
BBitLen(a) ==
    IF a = <<>> THEN 0 ELSE 14 * (Len(a) - 1) + BitLenSmall(a[Len(a)])

\* a * 2^k.
BShl(a, k) ==
    IF a = <<>> THEN <<>>
    ELSE BMulSmall([i \in 1..(k \div 14) |-> 0] \o a, 2^(k % 14))

\* a \div 2^k, and whether a bit was dropped: res is the quotient and
\* remainder of the digits above the k \div 14 lowest ones, `low`.
BShrBits(res, low) ==
    [q |-> res.q,
     sticky |-> res.r # 0 \/ \E i \in 1..Len(low) : low[i] # 0]
BShr(a, k) ==
    IF k \div 14 >= Len(a) THEN [q |-> <<>>, sticky |-> a # <<>>]
    ELSE BShrBits(BDivSmall(SubSeq(a, k \div 14 + 1, Len(a)), 2^(k % 14)),
                  SubSeq(a, 1, k \div 14))

BIsOdd(a) == a # <<>> /\ a[1] % 2 = 1

\* The largest digit d such that d * b <= r, from an estimate d that is
\* not below it.
RECURSIVE BDigitFrom(_, _, _)
BDigitFrom(r, b, d) ==
    IF BCmp(BMulSmall(b, d), r) <= 0 THEN d ELSE BDigitFrom(r, b, d - 1)

\* The digit of the quotient of r by b, for r < b * 2^14 and the top digit
\* of b at least 2^13: the two top digits of r by the top digit of b is at
\* most two above it.
BDigit(r, b) ==
    LET n == Len(b)
        top == (Limb(r, n + 1) * Base + Limb(r, n)) \div b[n]
    IN  IF BCmp(r, b) < 0 THEN 0
        ELSE BDigitFrom(r, b, IF top < Base THEN top ELSE Base - 1)

\* Quotient and remainder of a by b, as BDigit takes b: digit by digit from
\* digit s.i of a down, s.r the remainder and s.q the quotient so far.
BDivStep(a, b, s, d) ==
    [i |-> s.i - 1, q |-> <<d>> \o s.q,
     r |-> BSub(BTrim(<<a[s.i]>> \o s.r), BMulSmall(b, d))]
RECURSIVE BDivModFrom(_, _, _)
BDivModFrom(a, b, s) ==
    IF s.i = 0 THEN s
    ELSE BDivModFrom(a, b,
             BDivStep(a, b, s, BDigit(BTrim(<<a[s.i]>> \o s.r), b)))

\* Quotient of a by b # 0, and whether a remainder is left: for a b of
\* more than one digit, both are scaled to bring its top digit to 2^13 or
\* above.
BQuotientSmall(res) == [q |-> res.q, rest |-> res.r # 0]
BQuotientLong(s) == [q |-> BTrim(s.q), rest |-> s.r # <<>>]
BDivModLong(a, b) ==
    BQuotientLong(BDivModFrom(a, b, [i |-> Len(a), q |-> <<>>, r |-> <<>>]))
BDivMod(a, b) ==
    IF Len(b) = 1 THEN BQuotientSmall(BDivSmall(a, b[1]))
    ELSE BDivModLong(BShl(a, 14 - BitLenSmall(b[Len(b)])),
                     BShl(b, 14 - BitLenSmall(b[Len(b)])))

FZero == [neg |-> FALSE, m |-> <<>>, e |-> 0]

\* m * 2^e with the zero bits at the low end of m moved into e.
RECURSIVE TrailingZeros(_)
TrailingZeros(n) == IF n % 2 = 1 THEN 0 ELSE 1 + TrailingZeros(n \div 2)
RECURSIVE FCanon(_, _, _)
FCanon(neg, m, e) ==
    IF m = <<>> THEN FZero
    ELSE IF m[1] = 0 THEN FCanon(neg, SubSeq(m, 2, Len(m)), e + 14)
    ELSE LET t == TrailingZeros(m[1])
         IN  [neg |-> neg, m |-> BDivSmall(m, 2^t).q, e |-> e + t]

\* The float nearest to (m + f) * 2^e, where 0 <= f < 1 and f > 0 iff
\* sticky (then m has more than Precision bits): ties go to the even
\* mantissa.  cut is m without the bits below its top Precision + 1 bits,
\* kept its top Precision bits and the bit below them.
FRoundKept(neg, kept, e, sticky) ==
    FCanon(neg,
           IF kept.r = 1 /\ (sticky \/ BIsOdd(kept.q))
           THEN BAdd(kept.q, <<1>>) ELSE kept.q,
           e)
FRoundCut(neg, cut, e, sticky) ==
    FRoundKept(neg, BDivSmall(cut.q, 2), e, sticky \/ cut.sticky)
FRound(neg, m, e, sticky) ==
    IF BBitLen(m) <= Precision THEN FCanon(neg, m, e)
    ELSE FRoundCut(neg, BShr(m, BBitLen(m) - Precision - 1),
                   e + BBitLen(m) - Precision, sticky)

\* float(n) of an int n with |n| < 2^31.
FFromInt(n) == FCanon(n < 0, BFromNat(IF n < 0 THEN -n ELSE n), 0)

FIsZero(a) == a.m = <<>>
FNeg(a) == IF FIsZero(a) THEN a ELSE [a EXCEPT !.neg = ~a.neg]
FAbs(a) == [a EXCEPT !.neg = FALSE]

\* -1, 0 or 1 as |a| is below, equal to or above |b|.
FCmpAbs(a, b) ==
    IF FIsZero(a) \/ FIsZero(b)
    THEN IF FIsZero(a) /\ FIsZero(b) THEN 0 ELSE IF FIsZero(a) THEN -1 ELSE 1
    ELSE IF BBitLen(a.m) + a.e < BBitLen(b.m) + b.e THEN -1
    ELSE IF BBitLen(a.m) + a.e > BBitLen(b.m) + b.e THEN 1
    ELSE BCmp(BShl(a.m, IF a.e >= b.e THEN a.e - b.e ELSE 0),
              BShl(b.m, IF b.e >= a.e THEN b.e - a.e ELSE 0))
FCmp(a, b) ==
    IF a.neg /\ ~b.neg THEN -1
    ELSE IF ~a.neg /\ b.neg THEN 1
    ELSE (IF a.neg THEN -1 ELSE 1) * FCmpAbs(a, b)
FLe(a, b) == FCmp(a, b) <= 0
FLt(a, b) == FCmp(a, b) < 0

\* The sum of two mantissas of one exponent e.
FAddAligned(aneg, ma, bneg, mb, e) ==
    FRound(IF aneg = bneg \/ BCmp(ma, mb) >= 0 THEN aneg ELSE bneg,
           IF aneg = bneg THEN BAdd(ma, mb)
           ELSE IF BCmp(ma, mb) >= 0 THEN BSub(ma, mb)
           ELSE BSub(mb, ma),
           e, FALSE)
FAdd(a, b) ==
    IF FIsZero(a) THEN b
    ELSE IF FIsZero(b) THEN a
    ELSE LET e == IF a.e < b.e THEN a.e ELSE b.e
         IN  FAddAligned(a.neg, BShl(a.m, a.e - e),
                         b.neg, BShl(b.m, b.e - e), e)
FSub(a, b) == FAdd(a, FNeg(b))

FMul(a, b) ==
    IF FIsZero(a) \/ FIsZero(b) THEN FZero
    ELSE FRound(a.neg # b.neg, BMul(a.m, b.m), a.e + b.e, FALSE)

\* a / b for b # 0: the quotient of the mantissas to at least two bits
\* more than the precision, and whether a remainder is left.
FDivRound(neg, res, e) == FRound(neg, res.q, e, res.rest)
FDivScaled(a, b, k) ==
    FDivRound(a.neg # b.neg, BDivMod(BShl(a.m, k), b.m), a.e - k - b.e)
FDiv(a, b) ==
    IF FIsZero(a) THEN FZero
    ELSE FDivScaled(a, b,
             IF Precision + 2 + BBitLen(b.m) > BBitLen(a.m)
             THEN Precision + 2 + BBitLen(b.m) - BBitLen(a.m) ELSE 0)

\* The float nearest to the rational <<n, d>>: float() of its decimal text.
FFromRat(q) == FDiv(FFromInt(q[1]), FFromInt(q[2]))

\* The outcome of a call: a value, or the exception it raises.
Ok(v) == [err |-> "none", val |-> v]
Raise(e) == [err |-> e, val |-> FZero]

\* --------------------------------------------------- timing point table
\* A timing point is <<time, beatLength>>: time an int, beatLength a float
\* with an integral value.

\* The for loop of _get_latest_beat_length from candidate i on, with the
\* loop's pos and cur; the result is (pos[1], cur[1]).
RECURSIVE LatestScan(_, _, _, _, _)
LatestScan(timingPoints, time, i, pos, cur) ==
    IF i > Len(timingPoints) THEN <<pos[2], cur[2]>>
    ELSE LET candidate == timingPoints[i]
             pos2 == IF candidate[2] > 0 THEN candidate ELSE pos
         IN  IF candidate[1] < time
             THEN LatestScan(timingPoints, time, i + 1, pos2, candidate)
             ELSE <<pos2[2], cur[2]>>

_get_latest_beat_length(timingPoints, time) ==
    LatestScan(timingPoints, time, 1, timingPoints[1], timingPoints[1])

_get_current_beat_length(timingPoints, time) ==
    IF Len(timingPoints) = 0 THEN Raise("IndexError")
    ELSE LET both == _get_latest_beat_length(timingPoints, time)
             prevBeatLength == both[1]
             latestBeatLength == both[2]
         IN  IF latestBeatLength >= 0
             THEN Ok(FFromInt(latestBeatLength))
             ELSE Ok(FDiv(FMul(FFromInt(prevBeatLength),
                               FAbs(FFromInt(latestBeatLength))),
                          FFromInt(100)))

\* The for loop of _get_latest_positive_beat_length from candidate i on.
RECURSIVE PositiveScan(_, _, _, _)
PositiveScan(timingPoints, time, i, most_recent) ==
    IF i > Len(timingPoints) THEN most_recent
    ELSE LET candidate == timingPoints[i]
         IN  IF candidate[1] > time THEN most_recent
             ELSE PositiveScan(timingPoints, time, i + 1,
                               IF candidate[2] > 0 THEN candidate[2]
                               ELSE most_recent)

\* The initial value of most_recent: field 0 of the first record.
PositiveFallback(timingPoints) == timingPoints[1][1]

_get_latest_positive_beat_length(timingPoints, time) ==
    IF Len(timingPoints) = 0 THEN Raise("IndexError")
    ELSE Ok(FFromInt(PositiveScan(timingPoints, time, 1,
                                 PositiveFallback(timingPoints))))

\* ------------------------------------------------------------ documents
\* A line of the document; every line ends with a line break.  kind is
\* "text" (words: no number, and no colon, comma or bracket), "marker" (a
\* line holding [name]), "kv" (name:value, vals the value as a rational),
\* "blank" (the line "\n"), "record" (whole numbers delimited by commas,
\* vals its fields; a number alone on its line is a record of one field) or
\* "eof" (the '' that readline returns at end of file).
Line(kind, name, vals) == [kind |-> kind, name |-> name, vals |-> vals]
Text(s) == Line("text", s, <<>>)
Marker(section) == Line("marker", section, <<>>)
KV(key, value) == Line("kv", key, value)
Blank == Line("blank", "", <<>>)
EndOfFile == Line("eof", "", <<>>)
\* A timing point record "time,beatLength,...".
TimingRecord(time, beatLength) == Line("record", "", <<time, beatLength>>)
\* Hit object records "x,y,time,type,hitSound,...": a circle's ends there, a
\* spinner's goes on with its end time, a slider's with
\* "code|x1:y1|...|xk:yk,slides,length", held as name = code and
\* vals = x, y, time, type, hitSound, slides, length, x1, y1, ..., xk, yk.
\* A record with a name is the text of its first five numbers, its curve
\* (the name and the points), and the sixth and seventh number if any.
CircleRecord(x, y, time) == Line("record", "", <<x, y, time, 1, 0>>)
SpinnerRecord(x, y, time, endTime) == Line("record", "", <<x, y, time, 12, 0, endTime>>)
SliderRecord(x, y, time, code, points, slides, length) ==
    Line("record", code, <<x, y, time, 2, 0, slides, length>> \o points)

\* in_file.readline() with `cursor` lines consumed.
readline(file, cursor) ==
    IF cursor < Len(file) THEN file[cursor + 1] ELSE EndOfFile
advance(file, cursor) == IF cursor < Len(file) THEN cursor + 1 ELSE cursor

\* f"[{section}]" in row
HasMarker(row, section) == row.kind = "marker" /\ row.name = section
\* '[' in row or ']' in row
HasBracket(row) == row.kind = "marker"

\* ------------------------------------------------------ difficulty reader
NUM_DIFFICULTY_ELEMENTS == 6

\* A comma-separated field of a line of text: the text of a number, the
\* label, or the text "a|b" of two numbers around a bar.
NumField(v) == [num |-> v, label |-> ""]
LabelField(target) == [num |-> <<0, 1>>, label |-> target]
BarField(a, b) == [num |-> <<a, b>>, label |-> "|"]

\* row.split(':'): whether the row holds a colon, and the comma-separated
\* fields of the part between its first and its second colon.  A key:value
\* row gives its value; a record with a curve "code|x1:y1|x2:y2..." gives
\* "y1,slides,length" when the curve has one point, "y1|x2,slides,length"
\* when x2 ends it, and "y1|x2" when it goes on; no other row holds a colon.
HasColon(row) ==
    \/ row.kind = "kv"
    \/ row.kind = "record" /\ row.name # "" /\ Len(row.vals) >= 9
AfterColon(row) ==
    IF row.kind = "kv" THEN <<NumField(row.vals)>>
    ELSE IF Len(row.vals) = 9
    THEN <<NumField(FromInt(row.vals[9])), NumField(FromInt(row.vals[6])),
           NumField(FromInt(row.vals[7]))>>
    ELSE IF Len(row.vals) = 10
    THEN <<BarField(row.vals[9], row.vals[10]),
           NumField(FromInt(row.vals[6])), NumField(FromInt(row.vals[7]))>>
    ELSE <<BarField(row.vals[9], row.vals[10])>>

\* The for loop of _read_difficulty from element i on: the fields of the
\* string built so far, or IndexError where row.split(':')[1] does not
\* exist.
RECURSIVE DifficultyRows(_, _, _, _)
DifficultyRows(file, cursor, i, values) ==
    IF i = NUM_DIFFICULTY_ELEMENTS THEN [err |-> "none", values |-> values]
    ELSE LET row == readline(file, cursor)
         IN  IF ~HasColon(row) THEN [err |-> "IndexError", values |-> <<>>]
             ELSE DifficultyRows(file, advance(file, cursor), i + 1,
                                 values \o AfterColon(row))

\* float(difficulty.split(',')[4]): ValueError on a field that is not the
\* text of a number.
SliderMultOf(values) ==
    IF values[5].label # "" THEN Raise("ValueError")
    ELSE Ok(FFromRat(values[5].num))

\* ------------------------------------------------------ timing point rows
\* row == '\n': the blank line, which is also what a record of no field is.
IsLineBreak(row) ==
    row.kind = "blank" \/ (row.kind = "record" /\ row.name = "" /\ row.vals = <<>>)

\* The while loop of _get_beat_lengths with `row` just read: the table and
\* the cursor once a blank line or a line with a bracket is read; ValueError
\* where int(parsed[0]) is not a number (words, a key:value row, the '' of
\* end of file); IndexError where the row holds a number and no comma, so
\* that parsed[1] does not exist.
RECURSIVE BeatRows(_, _, _, _)
BeatRows(file, cursor, row, beat_lengths) ==
    IF IsLineBreak(row) \/ HasBracket(row)
    THEN [err |-> "none", beat_lengths |-> beat_lengths, cursor |-> cursor]
    ELSE IF row.kind # "record"
    THEN [err |-> "ValueError", beat_lengths |-> <<>>, cursor |-> cursor]
    ELSE IF Len(row.vals) < 2
    THEN [err |-> "IndexError", beat_lengths |-> <<>>, cursor |-> cursor]
    ELSE BeatRows(file, advance(file, cursor), readline(file, cursor),
                  Append(beat_lengths, <<row.vals[1], row.vals[2]>>))

\* ------------------------------------------------------- hit object reader
_is_circle(num) == num % 2 = 1
_is_slider(num) == (num \div 2) % 2 = 1

NoValue == <<0, 1>>
HitCircle(x, y, time) ==
    [kind |-> "circle", x |-> x, y |-> y, time |-> time, sliderType |-> "",
     lastX |-> 0, lastY |-> 0, numSlides |-> 0, sliderLength |-> 0,
     totalSliderLength |-> 0, timeLength |-> FZero, endTime |-> FZero]
Spinner(x, y, time, endTime) ==
    [HitCircle(x, y, time) EXCEPT !.kind = "spinner",
                                  !.endTime = FFromInt(endTime)]

SliderTypes == {"B", "C", "L", "P"}

\* slider_counts[slider_type] += 1 on the dictionary with keys B, C, L, P.
CountSlider(slider_counts, slider_type) ==
    IF slider_type \in SliderTypes
    THEN [err |-> "none",
          counts |-> [slider_counts EXCEPT ![slider_type] = @ + 1]]
    ELSE [err |-> "KeyError", counts |-> slider_counts]

\* totalLength * beatLength / (sliderMult * 100), scale the divisor.
SliderTime(totalLength, beatLength, scale) ==
    IF beatLength.err # "none" THEN beatLength
    ELSE IF FIsZero(scale) THEN Raise("ZeroDivisionError")
    ELSE Ok(FDiv(FMul(FFromInt(totalLength), beatLength.val), scale))
_compute_slider_time_length(totalLength, beat_lengths, time, sliderMult) ==
    SliderTime(totalLength, _get_current_beat_length(beat_lengths, time),
               FMul(sliderMult, FFromInt(100)))

\* The point a slider ends on: an odd number of slides ends on the last
\* control point, an even number on the first one.
SliderLastPoint(numSlides, first, last) ==
    IF numSlides % 2 = 1 THEN last ELSE first

\* The record's field 5 is its curve, "code|x1:y1|...", when it has a name,
\* else the sixth of its numbers; there is none when it has five numbers
\* and no name (IndexError).  A curve that ends the line carries the line
\* break, and is no key of slider_counts (KeyError); so does a number.  A
\* curve without a point, or with a point without its y, has no element to
\* index (IndexError).
SliderObject(parsed_cur, slider_counts, counts, timeLength) ==
    LET v == parsed_cur.vals
        lastPoint == SliderLastPoint(v[6], <<v[8], v[9]>>,
                                     <<v[Len(v) - 1], v[Len(v)]>>)
    IN  IF timeLength.err # "none"
        THEN [err |-> timeLength.err, counts |-> slider_counts,
              obj |-> HitCircle(0, 0, 0)]
        ELSE [err |-> "none", counts |-> counts,
              obj |-> [kind |-> "slider", x |-> v[1], y |-> v[2],
                       time |-> v[3], sliderType |-> parsed_cur.name,
                       lastX |-> lastPoint[1], lastY |-> lastPoint[2],
                       numSlides |-> v[6], sliderLength |-> v[7],
                       totalSliderLength |-> v[6] * v[7],
                       timeLength |-> timeLength.val,
                       endTime |-> FAdd(FFromInt(v[3]), timeLength.val)]]
_parse_slider(parsed_cur, slider_counts, beat_lengths, sliderMult) ==
    LET v == parsed_cur.vals
        counted == CountSlider(slider_counts, parsed_cur.name)
        fail(e) == [err |-> e, counts |-> slider_counts,
                    obj |-> HitCircle(0, 0, 0)]
    IN  IF parsed_cur.name = "" /\ Len(v) < 6 THEN fail("IndexError")
        ELSE IF parsed_cur.name # "" /\ Len(v) < 6 THEN fail("KeyError")
        ELSE IF counted.err # "none" THEN fail(counted.err)
        ELSE IF Len(v) < 9 \/ Len(v) % 2 = 0 THEN fail("IndexError")
        ELSE SliderObject(parsed_cur, slider_counts, counted.counts,
                          _compute_slider_time_length(v[6] * v[7],
                                                      beat_lengths, v[3],
                                                      sliderMult))

\* One pass of the while loop of _get_info over the record `cur`: the object
\* it appends and the counts it updates, or the exception it raises.  In the
\* spinner branch int(parsed_cur[5]) raises ValueError on a curve.
ParseHitObject(cur, slider_counts, beat_lengths, sliderMult) ==
    LET v == cur.vals
        fail(e) == [err |-> e, counts |-> slider_counts, obj |-> HitCircle(0, 0, 0)]
    IN  IF cur.kind # "record" \/ Len(v) < 4 THEN fail("IndexError")
        ELSE IF _is_slider(v[4])
        THEN _parse_slider(cur, slider_counts, beat_lengths, sliderMult)
        ELSE IF _is_circle(v[4])
        THEN [err |-> "none", counts |-> slider_counts,
              obj |-> HitCircle(v[1], v[2], v[3])]
        ELSE IF cur.name # "" THEN fail("ValueError")
        ELSE IF Len(v) < 6 THEN fail("IndexError")
        ELSE [err |-> "none", counts |-> slider_counts,
              obj |-> Spinner(v[1], v[2], v[3], v[6])]

\* ------------------------------------------------------ feature aggregator
TIMING_TOLERANCE == FFromRat(Rat(5, 100))
FRACTIONS ==
    << [key |-> "wholes", value |-> FFromRat(Rat(1, 1))],
       [key |-> "halves", value |-> FFromRat(Rat(1, 2))],
       [key |-> "thirds", value |-> FFromRat(Rat(1, 3))],
       [key |-> "fourths", value |-> FFromRat(Rat(1, 4))],
       [key |-> "sixths", value |-> FFromRat(Rat(1, 6))],
       [key |-> "eigths", value |-> FFromRat(Rat(1, 8))],
       [key |-> "twelfths", value |-> FFromRat(Rat(1, 12))],
       [key |-> "sixteenths", value |-> FFromRat(Rat(1, 16))] >>

\* The keys of timingDict and timingPercents, in insertion order.
TimingKeys ==
    <<"wholes", "halves", "thirds", "fourths", "sixths", "eigths",
      "twelfths", "sixteenths", "other">>
ZeroTimingDict == [k \in {TimingKeys[i] : i \in 1..Len(TimingKeys)} |-> 0]

_in_tolerance(input, target, tolerance) ==
    /\ FLe(FMul(target, FSub(FFromInt(1), tolerance)), input)
    /\ FLe(input, FMul(target, FAdd(FFromInt(1), tolerance)))

\* timeDiff / beatLength.  A zero beatLength raises ZeroDivisionError for a
\* Python number; the gap after a circle is a numpy integer (an entry of
\* info.time_diffs), whose division by zero yields inf or nan, which no
\* comparison accepts.
Timing(timeDiff, beatLength, firstKind) ==
    IF ~FIsZero(beatLength)
    THEN [err |-> "none", finite |-> TRUE, val |-> FDiv(timeDiff, beatLength)]
    ELSE IF firstKind = "circle"
    THEN [err |-> "none", finite |-> FALSE, val |-> FZero]
    ELSE [err |-> "ZeroDivisionError", finite |-> FALSE, val |-> FZero]

\* The for loop over FRACTIONS.items() from entry i on: the key whose
\* counter is incremented.
RECURSIVE TimingKey(_, _, _)
TimingKey(timing, fractions, i) ==
    IF i > Len(fractions) THEN "other"
    ELSE IF timing.finite
            /\ _in_tolerance(timing.val, fractions[i].value, TIMING_TOLERANCE)
    THEN fractions[i].key
    ELSE TimingKey(timing, fractions, i + 1)

\* The flagged loop and the fallback: the counter of the first matching
\* fraction is incremented, or that of "other" when none matched.
CountTimingAlsoOther(timingDict, timing) ==
    [[timingDict EXCEPT ![TimingKey(timing, FRACTIONS, 1)] = @ + 1]
        EXCEPT !["other"] = IF TimingKey(timing, FRACTIONS, 1) = "other"
                            THEN @ ELSE @ + 1]
CountTiming(timingDict, timing) ==
    [timingDict EXCEPT ![TimingKey(timing, FRACTIONS, 1)] = @ + 1]

\* The gap below which a pair counts for the average time difference.
BREAK_GAP == 2000
IsCountedInclusive(timeDiff) == FLe(timeDiff, FFromInt(BREAK_GAP))
IsCounted(timeDiff) == FLt(timeDiff, FFromInt(BREAK_GAP))

\* The gap of a pair: from the end of a slider or a spinner, else the entry
\* of info.time_diffs.
TimeDiff(first, second, time_diffs, index) ==
    IF first.kind \in {"slider", "spinner"}
    THEN FSub(FFromInt(second.time), first.endTime)
    ELSE FFromInt(time_diffs[index])

\* A sum of square roots, held exactly: whole + the sum of the roots of the
\* radicands in `roots`, none of which is a perfect square.
Whole(r) == [whole |-> r, roots |-> <<>>]
SAdd(a, b) == [whole |-> a.whole + b.whole, roots |-> a.roots \o b.roots]
\* Such a sum over k: rat + the sum of the roots / over.
SOver(a, k) ==
    [rat |-> Rat(a.whole, k), roots |-> a.roots,
     over |-> IF a.roots = <<>> THEN 1 ELSE k]
Exact(q) == [rat |-> q, roots |-> <<>>, over |-> 1]

\* The largest r of lo..hi with r * r <= n, by bisection.
RECURSIVE SqrtFrom(_, _, _)
SqrtFrom(n, lo, hi) ==
    IF lo >= hi THEN lo
    ELSE LET mid == (lo + hi + 1) \div 2
         IN  IF mid <= n \div mid THEN SqrtFrom(n, mid, hi)
             ELSE SqrtFrom(n, lo, mid - 1)
\* math.sqrt of an int n >= 0: the whole root of a perfect square, else
\* the irrational root, held as its radicand.
Sqrt(n) ==
    LET r == SqrtFrom(n, 0, n)
    IN  IF r * r = n THEN Whole(r) ELSE [whole |-> 0, roots |-> <<n>>]

\* The spacing of a pair: from the last point of a slider, else from the
\* position of the first object.
DistDiff(first, second) ==
    IF first.kind = "slider"
    THEN Sqrt((second.x - first.lastX) * (second.x - first.lastX)
              + (second.y - first.lastY) * (second.y - first.lastY))
    ELSE Sqrt((second.x - first.x) * (second.x - first.x)
              + (second.y - first.y) * (second.y - first.y))

\* timingDict[timingType] / len(info.hit_objects) * 100
PercentOfPairs(count, n) ==
    FMul(FDiv(FFromInt(count), FFromInt(n - 1)), FFromInt(100))
Percent(count, n) == FMul(FDiv(FFromInt(count), FFromInt(n)), FFromInt(100))

\* np.diff of a list of ints.
Diff(list) == [i \in 1..(IF Len(list) = 0 THEN 0 ELSE Len(list) - 1)
                 |-> list[i + 1] - list[i]]

\* ------------------------------------------------------- record serializer
OUTPUT_FILE_HEADER ==
    <<"HPDrainRate", "CircleSize", "OverallDifficulty", "ApproachRate",
      "SliderMultiplier", "avgDist", "avgTime", "wholes", "halves", "thirds",
      "fourths", "sixths", "eigths", "twelfths", "sixteenths", "other",
      "target">>

\* The line parse_osu composes: the difficulty string, avgDist, avgTime, the
\* items of timingPercents in order, the target.
Row(difficulty, computed, target) ==
    difficulty
    \o <<NumField(computed.avgDist), NumField(computed.avgTime)>>
    \o [i \in 1..Len(TimingKeys) |->
            NumField(computed.timingPercents[TimingKeys[i]])]
    \o <<LabelField(target)>>

\* ------------------------------------------------------------------ state
VARIABLES
    doc,            \* the lines of the .osu file
    cursor,         \* lines of doc consumed by readline
    pc,             \* the place of parse_osu, or of a query
    section,        \* the section _seek_to_section looks for
    eofReads,       \* readline calls of the running seek that returned ''
    error,          \* the exception raised, "none" without one
    difficulty,     \* the values _read_difficulty returned
    beat_lengths,   \* the timing point table
    cur,            \* _get_info: the line being parsed
    info,           \* _get_info: the MapInfo under construction
    index,          \* _compute_attributes: the loop index
    numObjects,     \* _compute_attributes: objects counted for avgTime
    totalTimeDiff,  \* _compute_attributes: sum of the counted gaps
    totalDistDiff,  \* _compute_attributes: sum of the spacings
    timingDict,     \* _compute_attributes: the counter of each bucket
    computed,       \* the ComputedInfo returned
    out,            \* the rows written to the output file
    query,          \* a beat-length query: its name, time and result
    files,          \* parse_data: the files not yet parsed, in order
    target          \* parse_osu: the target of the file being parsed

vars == <<doc, cursor, pc, section, eofReads, error, difficulty, beat_lengths,
          cur, info, index, numObjects, totalTimeDiff, totalDistDiff,
          timingDict, computed, out, query, files, target>>

fileVars == <<doc, cursor, section, eofReads>>
dirVars == <<files, target>>
aggVars == <<index, numObjects, totalTimeDiff, totalDistDiff, timingDict,
             computed>>

EmptyInfo ==
    [hit_objects |-> <<>>, slider_counts |-> [t \in SliderTypes |-> 0],
     num_circles |-> 0, num_sliders |-> 0, num_spinners |-> 0,
     times |-> <<>>, time_diffs |-> <<>>, start |-> 0, length |-> 0]
EmptyComputed ==
    [avgDist |-> Exact(NoValue), avgTime |-> FZero,
     timingPercents |-> [k \in DOMAIN ZeroTimingDict |-> FZero]]
NoQuery == [op |-> "none", time |-> 0, result |-> Ok(FZero)]

\* ----------------------------------------------------------------- inputs
MaxObjects == 3     \* hit objects of a generated document
MaxPoints == 3      \* timing points of a queried table
MaxEofReads == 2    \* reads at end of file a seek is followed for
MaxFiles == 2       \* files of a listing with more than one file

DifficultySection ==
    <<Marker("Difficulty"), KV("HPDrainRate", Rat(5, 1)),
      KV("CircleSize", Rat(4, 1)), KV("OverallDifficulty", Rat(8, 1)),
      KV("ApproachRate", Rat(9, 1)), KV("SliderMultiplier", Rat(2, 1)),
      KV("SliderTickRate", Rat(1, 1))>>

\* The timing point tables of the generated documents: one tempo, inherited
\* points, a table that starts after the first objects, one that starts with
\* an inherited point, an empty one, and three more tempos.
MainTable == << <<0, 500>> >>
DocTables ==
    { <<>>,
      MainTable,
      << <<0, 500>>, <<1000, -50>> >>,
      << <<0, 500>>, <<1000, -50>>, <<2000, 300>> >>,
      << <<1000, 500>> >>,
      << <<0, -100>>, <<1000, 500>> >>,
      << <<0, 750>> >>,
      << <<0, 1500>> >>,
      << <<0, 2000>> >> }

TimingRows(table) ==
    [i \in 1..Len(table) |-> TimingRecord(table[i][1], table[i][2])]

\* What follows the timing point records, up to the [HitObjects] marker.
Terminators ==
    { <<Blank, Marker("HitObjects")>>,
      <<Blank, Marker("Colours"), Blank, Marker("HitObjects")>>,
      <<Marker("Colours"), Blank, Marker("HitObjects")>>,
      <<Marker("HitObjects")>> }

\* The hit object records: the generated objects lie on the x axis, where
\* every spacing is a whole number; "circleD" lies off it; "sliderShort"
\* and "sliderBare" have the slider bit and no curve field, "sliderCode"
\* ends with its curve, "spinnerCurve" is no slider and has a curve.
Shapes == {"circle1", "sliderL", "spinner"}
Deltas == {125, 500, 2000}
MakeHit(shape, time) ==
    CASE shape = "circle0" -> CircleRecord(0, 0, time)
      [] shape = "circle1" -> CircleRecord(100, 0, time)
      [] shape = "circleD" -> CircleRecord(100, 100, time)
      [] shape = "sliderL" ->
            SliderRecord(0, 0, time, "L", <<50, 0, 100, 0>>, 1, 100)
      [] shape = "sliderB" ->
            SliderRecord(100, 0, time, "B", <<50, 0, 0, 0>>, 2, 100)
      [] shape = "sliderX" ->
            SliderRecord(0, 0, time, "X", <<50, 0, 100, 0>>, 1, 100)
      [] shape = "sliderShort" -> Line("record", "", <<30, 40, time, 2, 0>>)
      [] shape = "sliderBare" -> Line("record", "", <<30, 40, time, 2, 0, 9>>)
      [] shape = "sliderCode" -> Line("record", "L", <<0, 0, time, 2, 0>>)
      [] shape = "spinnerCurve" ->
            Line("record", "L", <<30, 40, time, 12, 0, 1, 100, 50, 0, 100, 0>>)
      [] shape = "spinner" -> SpinnerRecord(0, 0, time, time + 500)

RECURSIVE HitSeqs(_)
HitSeqs(n) ==
    IF n = 1 THEN { <<MakeHit(shape, 0)>> : shape \in Shapes }
    ELSE { Append(s, MakeHit(step[1], s[Len(s)].vals[3] + step[2])) :
             s \in HitSeqs(n - 1), step \in Shapes \X Deltas }

\* The hit objects of the documents whose table and layout vary.
SampleHits ==
    { <<MakeHit("circle0", 0)>>,
      <<MakeHit("circle0", 0), MakeHit("circle1", 125), MakeHit("circle0", 625)>>,
      <<MakeHit("circle0", 0), MakeHit("circle1", 2000)>>,
      <<MakeHit("circle0", 0), MakeHit("circleD", 500), MakeHit("circle1", 1000)>>,
      <<MakeHit("circle0", 0), MakeHit("sliderX", 500)>>,
      <<MakeHit("circle0", 0), MakeHit("sliderShort", 500)>>,
      <<MakeHit("circle0", 0), MakeHit("sliderBare", 500)>>,
      <<MakeHit("circle0", 0), MakeHit("sliderCode", 500),
        MakeHit("circle0", 1000)>>,
      <<MakeHit("circle0", 0), MakeHit("spinnerCurve", 500),
        MakeHit("circle0", 1000)>>,
      <<MakeHit("sliderL", 0), MakeHit("circle1", 500)>>,
      <<MakeHit("sliderB", 0), MakeHit("circle1", 250)>>,
      <<MakeHit("circle0", 0), MakeHit("circle1", 0), MakeHit("sliderB", 500)>>,
      <<MakeHit("spinner", 0), MakeHit("circle1", 1000)>>,
      <<MakeHit("circle0", 0), MakeHit("sliderL", 1500), MakeHit("circle0", 2500)>> }

\* Three circles a beat apart (section 8 of the specification).
ScenarioHits ==
    <<CircleRecord(0, 0, 0), CircleRecord(100, 0, 500),
      CircleRecord(100, 100, 1000)>>

FullDocOn(diff, table, terminator, hits) ==
    <<Text("osu file format v14"), Marker("Metadata")>>
    \o diff
    \o <<Blank, Marker("Events"), Marker("TimingPoints")>>
    \o TimingRows(table) \o terminator \o hits
FullDoc(table, terminator, hits) ==
    FullDocOn(DifficultySection, table, terminator, hits)

NormalEnd == <<Blank, Marker("HitObjects")>>
BaseDoc == FullDoc(MainTable, NormalEnd, <<MakeHit("circle0", 0), MakeHit("circle1", 500)>>)

\* Rows that are out of place in a [Difficulty] section: slider records
\* with one and with two control points, a circle record, a blank line.
StrayRows ==
    { SliderRecord(1, 2, 3, "L", <<5, 6>>, 1, 100),
      SliderRecord(1, 2, 3, "L", <<5, 6, 7, 8>>, 1, 100),
      CircleRecord(1, 2, 3),
      Blank }
\* The documents with a stray row as row i of their [Difficulty] section.
StrayDocs ==
    { FullDocOn([DifficultySection EXCEPT ![i + 1] = row], MainTable,
                NormalEnd,
                <<MakeHit("circle0", 0), MakeHit("sliderL", 500),
                  MakeHit("circle0", 1000)>>) :
        i \in 1..NUM_DIFFICULTY_ELEMENTS, row \in StrayRows }

\* Documents whose slider ends at a time that is no float, with the next
\* object where the exact ratio lies on the lower end of a band: slider
\* multiplier 0.3, and the beat length, the slider's length and slides and
\* the next object's time of each case.
EdgeCases ==
    { <<400, 35, 1, 1530>>, <<100, 77, 2, 1545>>, <<400, 70, 1, 2060>>,
      <<400, 35, 1, 1531>>, <<100, 77, 2, 1544>> }
EdgeDocs ==
    { FullDocOn([DifficultySection EXCEPT
                   ![6] = KV("SliderMultiplier", Rat(3, 10))],
                << <<0, c[1]>> >>, NormalEnd,
                <<CircleRecord(0, 0, 0),
                  SliderRecord(0, 0, 1000, "L", <<50, 0, 100, 0>>, c[3], c[2]),
                  CircleRecord(100, 0, c[4])>>) :
        c \in EdgeCases }

\* Rows that are out of place in a [TimingPoints] section: a number with no
\* comma after it, words, a key:value row.
StrayTimingRows ==
    { Line("record", "", <<1000>>), Text("inherited"), KV("Volume", Rat(60, 1)) }
\* The documents with a stray row after the records of their table.
StrayTimingDocs ==
    { FullDoc(table, <<row>> \o NormalEnd,
              <<MakeHit("circle0", 0), MakeHit("circle1", 500)>>) :
        table \in {<<>>, MainTable}, row \in StrayTimingRows }

\* The documents parse_osu is run on: every sequence of up to MaxObjects
\* generated objects under the main table; the sample objects under every
\* table and layout; every truncation of a document; the documents with a
\* stray difficulty row or a stray timing row; those with a ratio on the end
\* of a band; the scenario.
Documents ==
    { FullDoc(MainTable, NormalEnd, hits) :
        hits \in UNION { HitSeqs(n) : n \in 1..MaxObjects } }
    \cup { FullDoc(table, terminator, hits) :
             table \in DocTables, terminator \in Terminators,
             hits \in SampleHits }
    \cup { SubSeq(BaseDoc, 1, k) : k \in 0..Len(BaseDoc) }
    \cup StrayDocs
    \cup StrayTimingDocs
    \cup EdgeDocs
    \cup { FullDoc(MainTable, NormalEnd, ScenarioHits) }

Targets == {"0", "1"}

\* A file of map_data/<target>/.
File(t, d) == [target |-> t, doc |-> d]

\* The files of the listings with more than one file: two that parse and one
\* with a slider of an unknown type.
SampleDocs ==
    { BaseDoc,
      FullDoc(MainTable, NormalEnd, ScenarioHits),
      FullDoc(MainTable, NormalEnd,
              <<MakeHit("circle0", 0), MakeHit("sliderX", 500)>>) }

\* The listings of n files in the order parse_data goes through them: the
\* files of directory 0, then those of directory 1.
RECURSIVE ListingsOf(_)
ListingsOf(n) ==
    IF n = 0 THEN { <<>> }
    ELSE { Append(l, File(t, d)) :
             l \in { m \in ListingsOf(n - 1) :
                       n = 1 \/ m[n - 1].target = "0" },
             t \in Targets, d \in SampleDocs }
         \cup { Append(l, File("1", d)) :
                  l \in { m \in ListingsOf(n - 1) :
                            n > 1 /\ m[n - 1].target = "1" },
                  d \in SampleDocs }

\* What parse_data is run on: every document alone, and the listings of up
\* to MaxFiles sample files.
Listings ==
    { <<File("0", d)>> : d \in Documents }
    \cup UNION { ListingsOf(n) : n \in 0..MaxFiles }

\* ------------------------------------------------- parse_data, parse_osu
\* The locals of a call of parse_osu before its first statement.
FreshCall ==
    /\ cursor' = 0
    /\ section' = ""
    /\ eofReads' = 0
    /\ difficulty' = <<>>
    /\ beat_lengths' = <<>>
    /\ cur' = EndOfFile
    /\ info' = EmptyInfo
    /\ index' = 0
    /\ numObjects' = 0
    /\ totalTimeDiff' = FZero
    /\ totalDistDiff' = Whole(0)
    /\ timingDict' = ZeroTimingDict
    /\ computed' = EmptyComputed

Init ==
    /\ files \in Listings
    /\ target = ""
    /\ doc = <<>>
    /\ cursor = 0
    /\ pc = "parse_data"
    /\ section = ""
    /\ eofReads = 0
    /\ error = "none"
    /\ difficulty = <<>>
    /\ beat_lengths = <<>>
    /\ cur = EndOfFile
    /\ info = EmptyInfo
    /\ index = 0
    /\ numObjects = 0
    /\ totalTimeDiff = FZero
    /\ totalDistDiff = Whole(0)
    /\ timingDict = ZeroTimingDict
    /\ computed = EmptyComputed
    /\ out = <<>>
    /\ query = NoQuery

\* parse_data opens the output file, writes the header and calls
\* parse_target.
ParseData ==
    /\ pc = "parse_data"
    /\ out' = <<OUTPUT_FILE_HEADER>>
    /\ pc' = "parse_target"
    /\ UNCHANGED <<fileVars, error, difficulty, beat_lengths, cur, info,
                   aggVars, query, dirVars>>

\* The loop of parse_target over the files of a directory, for target 0 and
\* then for target 1: parse_osu is called on the next file and opens it, or
\* parse_data returns when none is left.
ParseTarget ==
    /\ pc = "parse_target"
    /\ IF files = <<>>
       THEN /\ pc' = "returned"
            /\ UNCHANGED <<fileVars, difficulty, beat_lengths, cur, info,
                           aggVars, dirVars>>
       ELSE /\ doc' = Head(files).doc
            /\ target' = Head(files).target
            /\ files' = Tail(files)
            /\ pc' = "parse_osu"
            /\ FreshCall
    /\ UNCHANGED <<error, out, query>>

\* The place a caller of _seek_to_section goes on from.
AfterSeek(s) ==
    CASE s = "Difficulty" -> "_read_difficulty"
      [] s = "TimingPoints" -> "_get_beat_lengths"
      [] s = "HitObjects" -> "_get_info"

\* parse_osu reads the version line and calls _read_difficulty, which seeks.
ReadVersion ==
    /\ pc = "parse_osu"
    /\ cursor' = advance(doc, cursor)
    /\ pc' = "_seek_to_section"
    /\ section' = "Difficulty"
    /\ eofReads' = 0
    /\ UNCHANGED <<doc, error, difficulty, beat_lengths, cur, info, aggVars,
                   out, query>>
    /\ UNCHANGED dirVars

\* One readline of _seek_to_section and the test of its while loop.  At end
\* of file readline returns '', which holds no marker: the loop goes on.
SeekStep ==
    /\ pc = "_seek_to_section"
    /\ LET row == readline(doc, cursor)
       IN  /\ row.kind = "eof" => eofReads < MaxEofReads
           /\ cursor' = advance(doc, cursor)
           /\ eofReads' = IF row.kind = "eof" THEN eofReads + 1 ELSE eofReads
           /\ pc' = IF HasMarker(row, section) THEN AfterSeek(section)
                    ELSE "_seek_to_section"
    /\ UNCHANGED <<doc, section, error, difficulty, beat_lengths, cur, info,
                   aggVars, out, query>>
    /\ UNCHANGED dirVars

\* The six reads of _read_difficulty; parse_osu then converts the slider
\* multiplier and calls
\* _get_beat_lengths, which seeks.
ReadDifficulty ==
    /\ pc = "_read_difficulty"
    /\ LET read == DifficultyRows(doc, cursor, 0, <<>>)
           mult == IF read.err # "none" THEN Raise(read.err)
                   ELSE SliderMultOf(read.values)
       IN  IF mult.err # "none"
           THEN /\ pc' = "raised"
                /\ error' = mult.err
                /\ UNCHANGED <<cursor, section, difficulty>>
           ELSE /\ difficulty' = read.values
                /\ cursor' = cursor + NUM_DIFFICULTY_ELEMENTS
                /\ pc' = "_seek_to_section"
                /\ section' = "TimingPoints"
                /\ error' = error
    /\ eofReads' = 0
    /\ UNCHANGED <<doc, beat_lengths, cur, info, aggVars, out, query>>
    /\ UNCHANGED dirVars

\* The read loop of _get_beat_lengths; parse_osu then calls _get_info,
\* which seeks.
GetBeatLengths ==
    /\ pc = "_get_beat_lengths"
    /\ LET read == BeatRows(doc, advance(doc, cursor), readline(doc, cursor),
                            <<>>)
       IN  IF read.err # "none"
           THEN /\ pc' = "raised"
                /\ error' = read.err
                /\ UNCHANGED <<cursor, section, beat_lengths>>
           ELSE /\ beat_lengths' = read.beat_lengths
                /\ cursor' = read.cursor
                /\ pc' = "_seek_to_section"
                /\ section' = "HitObjects"
                /\ error' = error
    /\ eofReads' = 0
    /\ UNCHANGED <<doc, difficulty, cur, info, aggVars, out, query>>
    /\ UNCHANGED dirVars

\* sliderMult, the local of parse_osu.
SliderMult == FFromRat(difficulty[5].num)

\* _get_info reads the first record and takes its time as the start.
ReadFirstHit ==
    /\ pc = "_get_info"
    /\ LET row == readline(doc, cursor)
       IN  IF row.kind # "record" \/ Len(row.vals) < 3
           THEN /\ pc' = "raised"
                /\ error' = "IndexError"
                /\ UNCHANGED <<cursor, cur, info>>
           ELSE /\ cur' = row
                /\ cursor' = advance(doc, cursor)
                /\ info' = [info EXCEPT !.start = row.vals[3]]
                /\ pc' = "_get_info_loop"
                /\ error' = error
    /\ UNCHANGED <<doc, section, eofReads, difficulty, beat_lengths, aggVars,
                   out, query>>
    /\ UNCHANGED dirVars

\* One pass of the while loop of _get_info: what it does with the outcome
\* of the pass over the record `cur`.
AppendHitObject(parsed) ==
    IF parsed.err # "none"
    THEN /\ pc' = "raised"
         /\ error' = parsed.err
         /\ UNCHANGED <<cursor, cur, info>>
    ELSE /\ info' =
             [info EXCEPT
                !.hit_objects = Append(@, parsed.obj),
                !.slider_counts = parsed.counts,
                !.num_sliders = IF parsed.obj.kind = "slider" THEN @ + 1 ELSE @,
                !.num_circles = IF parsed.obj.kind = "circle" THEN @ + 1 ELSE @,
                !.num_spinners = IF parsed.obj.kind = "spinner" THEN @ + 1 ELSE @,
                !.times = Append(@, parsed.obj.time),
                !.length = parsed.obj.time - info.start]
         /\ cur' = readline(doc, cursor)
         /\ cursor' = advance(doc, cursor)
         /\ UNCHANGED <<pc, error>>

ReadHitObject ==
    /\ pc = "_get_info_loop"
    /\ cur.kind # "eof"
    /\ AppendHitObject(ParseHitObject(cur, info.slider_counts, beat_lengths,
                                      SliderMult))
    /\ UNCHANGED <<doc, section, eofReads, difficulty, beat_lengths, aggVars,
                   out, query>>
    /\ UNCHANGED dirVars

\* The end of _get_info, and the start of _compute_attributes on its result.
FinishInfo ==
    /\ pc = "_get_info_loop"
    /\ cur.kind = "eof"
    /\ info' = [info EXCEPT !.time_diffs = Diff(info.times)]
    /\ index' = 1
    /\ numObjects' = Len(info.hit_objects)
    /\ totalTimeDiff' = FZero
    /\ totalDistDiff' = Whole(0)
    /\ timingDict' = ZeroTimingDict
    /\ computed' = EmptyComputed
    /\ pc' = "_compute_attributes"
    /\ UNCHANGED <<fileVars, error, difficulty, beat_lengths, cur, out, query>>
    /\ UNCHANGED dirVars

\* One pass of the loop of _compute_attributes over a pair of objects
\* (index counts from 0, as in the code, and the pass for index 0 does
\* nothing): the pass once the ratio `timing` is known, the pass once the
\* beat length and the gap are, and the pass.
AggregateTiming(first, second, timeDiff, timing) ==
    IF timing.err # "none"
    THEN /\ pc' = "raised"
         /\ error' = timing.err
         /\ UNCHANGED <<index, numObjects, totalTimeDiff, totalDistDiff,
                        timingDict>>
    ELSE /\ totalTimeDiff' = IF IsCounted(timeDiff)
                             THEN FAdd(totalTimeDiff, timeDiff)
                             ELSE totalTimeDiff
         /\ numObjects' = IF IsCounted(timeDiff) THEN numObjects
                          ELSE numObjects - 1
         /\ timingDict' = CountTiming(timingDict, timing)
         /\ totalDistDiff' = SAdd(totalDistDiff, DistDiff(first, second))
         /\ index' = index + 1
         /\ UNCHANGED <<pc, error>>
AggregateGap(first, second, beatLength, timeDiff) ==
    IF beatLength.err # "none"
    THEN /\ pc' = "raised"
         /\ error' = beatLength.err
         /\ UNCHANGED <<index, numObjects, totalTimeDiff, totalDistDiff,
                        timingDict>>
    ELSE AggregateTiming(first, second, timeDiff,
                         Timing(timeDiff, beatLength.val, first.kind))
AggregatePair ==
    /\ pc = "_compute_attributes"
    /\ index < Len(info.hit_objects)
    /\ AggregateGap(info.hit_objects[index], info.hit_objects[index + 1],
                    _get_latest_positive_beat_length(
                        beat_lengths, info.hit_objects[index + 1].time),
                    TimeDiff(info.hit_objects[index],
                             info.hit_objects[index + 1], info.time_diffs,
                             index))
    /\ UNCHANGED <<fileVars, difficulty, beat_lengths, cur, info, computed,
                   out, query>>
    /\ UNCHANGED dirVars

\* The end of _compute_attributes: the percentages and the two averages.
FinishCompute ==
    /\ pc = "_compute_attributes"
    /\ index >= Len(info.hit_objects)
    /\ LET n == Len(info.hit_objects)
       IN  IF numObjects - 1 = 0 \/ n - 1 = 0
           THEN /\ pc' = "raised"
                /\ error' = "ZeroDivisionError"
                /\ UNCHANGED computed
           ELSE /\ computed' =
                    [timingPercents |->
                        [k \in DOMAIN timingDict |-> Percent(timingDict[k], n)],
                     avgTime |-> FDiv(totalTimeDiff, FFromInt(numObjects - 1)),
                     avgDist |-> SOver(totalDistDiff, n - 1)]
                /\ pc' = "write"
                /\ error' = error
    /\ UNCHANGED <<fileVars, difficulty, beat_lengths, cur, info, index,
                   numObjects, totalTimeDiff, totalDistDiff, timingDict, out,
                   query>>
    /\ UNCHANGED dirVars

\* parse_osu writes the line; target is the label its caller passed.
WriteRow ==
    /\ pc = "write"
    /\ out' = Append(out, Row(difficulty, computed, target))
    /\ pc' = "done"
    /\ UNCHANGED <<fileVars, error, difficulty, beat_lengths, cur, info,
                   aggVars, query, dirVars>>

\* parse_osu closes the file and returns to the loop of parse_target.
ReturnToTarget ==
    /\ pc = "done"
    /\ pc' = "parse_target"
    /\ UNCHANGED <<fileVars, error, difficulty, beat_lengths, cur, info,
                   aggVars, out, query, dirVars>>

Next ==
    \/ ParseData
    \/ ParseTarget
    \/ ReadVersion
    \/ SeekStep
    \/ ReadDifficulty
    \/ GetBeatLengths
    \/ ReadFirstHit
    \/ ReadHitObject
    \/ FinishInfo
    \/ AggregatePair
    \/ FinishCompute
    \/ WriteRow
    \/ ReturnToTarget

Spec == Init /\ [][Next]_vars

\* ------------------------------------------------------ beat-length queries
\* The two queries of the timing point table, on tables of up to MaxPoints
\* records in time order.
QueryStamps == {0, 1000, 2000}
QueryValues == {500, 300, -50}
QueryTimes == {0, 500, 1000, 1500, 2000, 2500}

RECURSIVE QueryTables(_)
QueryTables(n) ==
    IF n = 0 THEN { <<>> }
    ELSE LET shorter == QueryTables(n - 1)
         IN  shorter \cup
             { Append(t, <<stamp, value>>) :
                 t \in { u \in shorter : Len(u) = n - 1 },
                 stamp \in QueryStamps, value \in QueryValues }

IsSorted(table) ==
    \A i \in 1..Len(table) : \A j \in i..Len(table) : table[i][1] <= table[j][1]

InitQuery ==
    /\ beat_lengths \in { t \in QueryTables(MaxPoints) : IsSorted(t) }
    /\ \E time \in QueryTimes : query = [NoQuery EXCEPT !.time = time]
    /\ pc = "query"
    /\ doc = <<>>
    /\ cursor = 0
    /\ section = ""
    /\ eofReads = 0
    /\ error = "none"
    /\ difficulty = <<>>
    /\ cur = EndOfFile
    /\ info = EmptyInfo
    /\ index = 0
    /\ numObjects = 0
    /\ totalTimeDiff = FZero
    /\ totalDistDiff = Whole(0)
    /\ timingDict = ZeroTimingDict
    /\ computed = EmptyComputed
    /\ out = <<>>
    /\ files = <<>>
    /\ target = ""

QueryCurrent ==
    /\ pc = "query"
    /\ query.op = "none"
    /\ query' = [query EXCEPT
                   !.op = "_get_current_beat_length",
                   !.result = _get_current_beat_length(beat_lengths, query.time)]
    /\ UNCHANGED <<fileVars, pc, error, difficulty, beat_lengths, cur, info,
                   aggVars, out>>
    /\ UNCHANGED dirVars

QueryLatestPositive ==
    /\ pc = "query"
    /\ query.op = "none"
    /\ query' = [query EXCEPT
                   !.op = "_get_latest_positive_beat_length",
                   !.result = _get_latest_positive_beat_length(beat_lengths,
                                                               query.time)]
    /\ UNCHANGED <<fileVars, pc, error, difficulty, beat_lengths, cur, info,
                   aggVars, out>>
    /\ UNCHANGED dirVars

NextQuery == QueryCurrent \/ QueryLatestPositive

SpecQuery == InitQuery /\ [][NextQuery]_vars

\* ------------------------------------------------------------------ claims

\* The lines of the document after its first [HitObjects] marker.
RECURSIVE MarkerIndex(_, _, _)
MarkerIndex(file, name, i) ==
    IF i > Len(file) THEN 0
    ELSE IF HasMarker(file[i], name) THEN i
    ELSE MarkerIndex(file, name, i + 1)
HitRecords(file) ==
    LET m == MarkerIndex(file, "HitObjects", 1)
    IN  IF m = 0 THEN <<>> ELSE SubSeq(file, m + 1, Len(file))

\* C1: a seek whose marker does not occur before the end of the document
\* stops with a ParseError: once readline has returned the '' of end of file
\* to a seek, parse_osu has raised ParseError and is no longer seeking.
C1_SeekSurfacesParseError ==
    eofReads > 0 => (pc = "raised" /\ error = "ParseError")

\* C2: a document with exactly one hit object is rejected with
\* DegenerateInputError before aggregation: _compute_attributes is never
\* entered on it, and no division by zero is raised.
C2_OneObjectRejected ==
    Len(HitRecords(doc)) = 1 =>
        /\ pc # "_compute_attributes"
        /\ error # "ZeroDivisionError"
        /\ (pc = "raised" /\ Len(info.hit_objects) = 1
                => error = "DegenerateInputError")

\* C3: every row written matches the header: it has the header's 17 fields,
\* with avgDist sixth, avgTime seventh, the nine percentages next in bucket
\* order, and the target last.
C3_RowMatchesHeader ==
    /\ \A r \in 2..Len(out) : Len(out[r]) = Len(OUTPUT_FILE_HEADER)
    /\ pc = "done" =>
          LET row == out[Len(out)]
          IN  /\ row[6] = NumField(computed.avgDist)
              /\ row[7] = NumField(computed.avgTime)
              /\ \A b \in 1..Len(TimingKeys) :
                    row[7 + b]
                      = NumField(computed.timingPercents[TimingKeys[b]])
              /\ row[Len(OUTPUT_FILE_HEADER)] = LabelField(target)

\* The last record of a table with a timestamp below (at or below) a time,
\* 0 when there is none; the last positive record before record k.
LastBefore(table, time) ==
    LET S == { i \in 1..Len(table) : table[i][1] < time }
    IN  IF S = {} THEN 0 ELSE CHOOSE i \in S : \A j \in S : j <= i
LastPositiveUpTo(table, k) ==
    LET S == { i \in 1..k : table[i][2] > 0 }
    IN  IF S = {} THEN 0 ELSE CHOOSE i \in S : \A j \in S : j <= i
PositiveAtOrBefore(table, time) ==
    { i \in 1..Len(table) : table[i][1] <= time /\ table[i][2] > 0 }

\* C4: on a time-sorted table, when the latest record with a timestamp
\* below t is inherited (a negative value v), the effective beat length is
\* L * |v| / 100 with L the value of the most recent positive record before
\* that inherited record; a positive record at or after t plays no part.
C4_InheritedUsesPrecedingPositive ==
    LET k == LastBefore(beat_lengths, query.time)
        p == LastPositiveUpTo(beat_lengths, k - 1)
    IN  (/\ query.op = "_get_current_beat_length"
         /\ k > 0 /\ beat_lengths[k][2] < 0
         /\ p > 0)
        => query.result =
             Ok(FDiv(FMul(FFromInt(beat_lengths[p][2]),
                          FFromInt(Abs(beat_lengths[k][2]))),
                     FFromInt(100)))

\* C5: on a non-empty table, when no record at or before t has a positive
\* value (t before the first record included), the latest positive beat
\* length is the value field of the first record.
C5_FallbackIsFirstValue ==
    (/\ query.op = "_get_latest_positive_beat_length"
     /\ Len(beat_lengths) > 0
     /\ PositiveAtOrBefore(beat_lengths, query.time) = {})
    => query.result = Ok(FFromInt(beat_lengths[1][2]))

\* C6: a slider whose path-type code is none of B, C, L, P is parsed as a P
\* slider: no KeyError is raised, the count of P is the number of sliders
\* read with code P or an unrecognized code, and the counts of B, C and L
\* are the numbers of sliders read with those codes.
SlidersRead(codes) ==
    Cardinality({ i \in 1..Len(info.hit_objects) :
                    /\ info.hit_objects[i].kind = "slider"
                    /\ info.hit_objects[i].sliderType \in codes })
C6_UnrecognizedCountsAsP ==
    /\ error # "KeyError"
    /\ info.slider_counts["P"]
         = Cardinality({ i \in 1..Len(info.hit_objects) :
                           /\ info.hit_objects[i].kind = "slider"
                           /\ info.hit_objects[i].sliderType \notin {"B", "C", "L"} })
    /\ \A code \in {"B", "C", "L"} :
          info.slider_counts[code] = SlidersRead({code})

\* A valid document: [Difficulty], [TimingPoints] and [HitObjects] in that
\* order, six key:value rows after [Difficulty], a timing point after
\* [TimingPoints], no row between [TimingPoints] and [HitObjects] but
\* records of a time and a beat length, blank lines and markers, and a
\* record after [HitObjects].
ValidDocument(file) ==
    LET d == MarkerIndex(file, "Difficulty", 1)
        t == MarkerIndex(file, "TimingPoints", 1)
        h == MarkerIndex(file, "HitObjects", 1)
    IN  /\ 0 < d /\ d < t /\ t < h /\ h < Len(file)
        /\ \A i \in (d + 1)..(d + NUM_DIFFICULTY_ELEMENTS) : file[i].kind = "kv"
        /\ t + 1 < h /\ file[t + 1].kind = "record"
        /\ \A i \in (t + 1)..(h - 1) :
              \/ file[i].kind \in {"blank", "marker"}
              \/ file[i].kind = "record" /\ Len(file[i].vals) >= 2
        /\ \A i \in (h + 1)..Len(file) : file[i].kind = "record"

\* C10: on a valid document, building the timing point table consumes no
\* marker a later seek needs: while the hit object reader seeks, the
\* [HitObjects] marker is still ahead of the cursor, and when the seek has
\* returned the next read is the first record of that section.
C10_TableLeavesHitObjectsMarker ==
    ValidDocument(doc) =>
        /\ (pc = "_seek_to_section" /\ section = "HitObjects"
              => \E i \in (cursor + 1)..Len(doc) : HasMarker(doc[i], "HitObjects"))
        /\ (pc = "_get_info"
              => /\ cursor = MarkerIndex(doc, "HitObjects", 1)
                 /\ readline(doc, cursor) = HitRecords(doc)[1])

\* The pairs the aggregator walks, stated from the objects alone: pair i is
\* (hit_objects[i], hit_objects[i + 1]).
NumHit == Len(info.hit_objects)
Aggregating == pc \in {"_compute_attributes", "write", "done"}
Returned == pc \in {"write", "done"}

\* The gap of pair i: from the end of a slider or spinner, else from the
\* time of the circle.
PairGap(i) ==
    LET prev == info.hit_objects[i]
        next == info.hit_objects[i + 1]
    IN  FSub(FFromInt(next.time),
             IF prev.kind = "circle" THEN FFromInt(prev.time)
             ELSE prev.endTime)

\* The spacing of pair i: the root of the squared distance from where the
\* first object ends to where the second lies, a whole number when there
\* is one with that square.
PairDist(i) ==
    LET prev == info.hit_objects[i]
        next == info.hit_objects[i + 1]
        fx == IF prev.kind = "slider" THEN prev.lastX ELSE prev.x
        fy == IF prev.kind = "slider" THEN prev.lastY ELSE prev.y
        sq == (next.x - fx) * (next.x - fx) + (next.y - fy) * (next.y - fy)
    IN  IF \E d \in 0..200 : d * d = sq
        THEN Whole(CHOOSE d \in 0..200 : d * d = sq)
        ELSE [whole |-> 0, roots |-> <<sq>>]

\* The bucket of pair i: the first of the eight fractions 1/den whose band
\* [(1/den) * 0.95, (1/den) * 1.05], in floats, holds gap / beatLength,
\* else "other" (a ratio that is no number lies in no band).
Denominators == <<1, 2, 3, 4, 6, 8, 12, 16>>
BandLow ==
    [b \in 1..Len(Denominators) |->
        FMul(FFromRat(<<1, Denominators[b]>>),
             FSub(FFromInt(1), FFromRat(<<1, 20>>)))]
BandHigh ==
    [b \in 1..Len(Denominators) |->
        FMul(FFromRat(<<1, Denominators[b]>>),
             FAdd(FFromInt(1), FFromRat(<<1, 20>>)))]
FirstBand(hits) ==
    IF hits = {} THEN "other"
    ELSE TimingKeys[CHOOSE b \in hits : \A c \in hits : b <= c]
BucketOf(r) ==
    FirstBand({ b \in 1..Len(Denominators) :
                  FLe(BandLow[b], r) /\ FLe(r, BandHigh[b]) })
PairBucket(i) ==
    LET beat == _get_latest_positive_beat_length(
                    beat_lengths, info.hit_objects[i + 1].time).val
    IN  IF FIsZero(beat) THEN "other"
        ELSE BucketOf(FDiv(PairGap(i), beat))

\* The counters after the first k pairs: one count for each pair, in the
\* counter of its bucket.
RECURSIVE BucketCounts(_)
BucketCounts(k) ==
    IF k = 0 THEN [b \in DOMAIN timingDict |-> 0]
    ELSE [BucketCounts(k - 1) EXCEPT ![PairBucket(k)] = @ + 1]

RECURSIVE SumCounters(_, _)
SumCounters(dict, b) ==
    IF b = 0 THEN 0 ELSE dict[TimingKeys[b]] + SumCounters(dict, b - 1)

\* C7: bucket assignment is total and exclusive: every pair walked has
\* incremented exactly one counter, that of the first bucket whose 5% band
\* holds its ratio, else `other`; so each counter is the number of walked
\* pairs of its bucket, the nine counters sum to the number of walked
\* pairs, and to n - 1 once all n objects are aggregated.
C7_BucketsTotalExclusive ==
    Aggregating =>
        /\ timingDict = BucketCounts(index - 1)
        /\ SumCounters(timingDict, Len(TimingKeys)) = index - 1
        /\ (Returned => SumCounters(timingDict, Len(TimingKeys)) = NumHit - 1)

\* A map of three objects is aggregated: one pair with a negative ratio
\* went to `other`, the other pair to `fourths`.
C7_Witness ==
    /\ pc = "done" /\ NumHit = 3
    /\ \E i \in 1..2 : FLt(PairGap(i), FZero) /\ PairBucket(i) = "other"
    /\ timingDict["other"] = 1 /\ timingDict["fourths"] = 1

\* The pairs among the first k that are breaks, and the sums over the first
\* k pairs of the gaps that are not breaks and of the spacings.
IsBreak(i) == ~FLt(PairGap(i), FFromInt(2000))
Breaks(k) == { i \in 1..k : IsBreak(i) }
RECURSIVE SumGaps(_)
SumGaps(k) ==
    IF k = 0 THEN FZero
    ELSE IF IsBreak(k) THEN SumGaps(k - 1)
    ELSE FAdd(SumGaps(k - 1), PairGap(k))
RECURSIVE SumDists(_)
SumDists(k) ==
    IF k = 0 THEN Whole(0) ELSE SAdd(SumDists(k - 1), PairDist(k))

\* C8: a pair whose gap is 2000 ms or more adds nothing to the numerator of
\* avgTime and takes one off the covered-object count, a pair with a
\* smaller gap adds its gap, and every pair adds its spacing to the
\* numerator of avgDist, whose denominator is n - 1.
C8_BreakExclusion ==
    Aggregating =>
        /\ totalTimeDiff = SumGaps(index - 1)
        /\ numObjects = NumHit - Cardinality(Breaks(index - 1))
        /\ totalDistDiff = SumDists(index - 1)
        /\ (Returned =>
              /\ computed.avgDist = SOver(SumDists(NumHit - 1), NumHit - 1)
              /\ computed.avgTime
                   = FDiv(SumGaps(NumHit - 1),
                          FFromInt(NumHit - Cardinality(Breaks(NumHit - 1))
                                     - 1)))

\* A map is aggregated that has a pair exactly 2000 ms apart with a spacing
\* above zero, and a pair less than 2000 ms apart.
C8_Witness ==
    /\ pc = "done"
    /\ \E i \in 1..(NumHit - 1) :
          PairGap(i) = FFromInt(2000) /\ PairDist(i) # Whole(0)
    /\ \E j \in 1..(NumHit - 1) : FLt(PairGap(j), FFromInt(2000))

ScenarioDoc == FullDoc(MainTable, NormalEnd, ScenarioHits)

\* The percentages once every pair of a map of n >= 2 objects fell into one
\* bucket: `full` for that bucket, 0 for the others; and the scenario's
\* averages with `full` for wholes.
OneBucketPercents(full) ==
    \A b \in 1..Len(TimingKeys) :
        (NumHit >= 2 /\ timingDict[TimingKeys[b]] = NumHit - 1) =>
            \A c \in 1..Len(TimingKeys) :
                computed.timingPercents[TimingKeys[c]]
                  = IF c = b THEN full ELSE FZero
ScenarioResult(full) ==
    doc = ScenarioDoc =>
        /\ computed.avgDist = Exact(FromInt(100))
        /\ computed.avgTime = FFromInt(500)
        /\ \A c \in 1..Len(TimingKeys) :
              computed.timingPercents[TimingKeys[c]]
                = IF TimingKeys[c] = "wholes" THEN full ELSE FZero

\* C9 (as stated): when every pair falls into one bucket, that bucket's
\* percentage is 100.0 and the others are 0.0; the scenario yields
\* avgDist 100.0, avgTime 500.0 and 100.0 for wholes.
C9_OneBucketIsHundred ==
    Returned =>
        OneBucketPercents(FFromInt(100)) /\ ScenarioResult(FFromInt(100))

\* C9 (amended): when every pair of a map of n >= 2 objects falls into one
\* bucket, that bucket's percentage in the returned record is
\* (n - 1) / n * 100 and the others are 0.0; the scenario yields avgDist
\* 100.0, avgTime 500.0 and 200/3 (66.67) for wholes.
C9_OneBucketIsPairsOverObjects ==
    Returned =>
        /\ OneBucketPercents(FMul(FFromRat(<<NumHit - 1, NumHit>>),
                                  FFromInt(100)))
        /\ ScenarioResult(FMul(FFromRat(<<2, 3>>), FFromInt(100)))

\* The scenario's row is written: both pairs were counted as wholes.
C9_Witness ==
    /\ pc = "done" /\ doc = ScenarioDoc
    /\ timingDict["wholes"] = 2 /\ NumHit = 3

\* C11: for every sequence of n >= 2 hit objects whose pairs were all
\* walked, the denominator of avgTime (the covered-object count minus one)
\* is above zero, also when every pair is a break, and the aggregation
\* completes without a division by zero.
C11_AvgTimeDefined ==
    (NumHit >= 2 /\ index >= NumHit
       /\ pc \in {"_compute_attributes", "raised"}) =>
        /\ numObjects - 1 > 0
        /\ ~(pc = "raised" /\ error = "ZeroDivisionError")

====
